---- MODULE Spec2Model ----
(***************************************************************************)
(* Model of the AWX job exporter (main.go): the poll task started by       *)
(* recordAWXMetrics, which fetches the job list, filters it through the    *)
(* whitelist, counts jobs per (organization, status, combined labels) and  *)
(* sets one gauge of the awx_jobs_total vector per counted key.            *)
(***************************************************************************)
EXTENDS Integers, Sequences, FiniteSets, TLC

(* ------------------------------ bounds -------------------------------- *)

\* longest "results" array the upstream answers with
MaxJobs == 3

(* ------------------------------ inputs -------------------------------- *)

\* an AWXJob as decoded; JobId is only logged and Elapsed is never read
Job(org, status, labels) ==
    [Organization |-> org, Status |-> status, Labels |-> labels]

\* the job records the upstream answers with, cycle after cycle
JobRecords ==
    { Job("A", "ok", <<"prod">>),
      Job("B", "failed", <<"dev">>),
      Job("A", "ok", <<>>) }

\* the job records of a first response: also jobs with several labels,
\* in both orders, a job whose one label is the empty string and a job
\* whose one label holds a comma
FirstJobRecords ==
    JobRecords \cup
    { Job("B", "ok", <<"prod", "dev">>),
      Job("A", "ok", <<"prod", "dev">>),
      Job("A", "ok", <<"dev", "prod">>),
      Job("A", "ok", <<"">>),
      Job("A", "ok", <<"prod,dev">>) }

RECURSIVE SeqsUpTo(_, _)
SeqsUpTo(S, n) ==
    IF n = 0 THEN { <<>> }
    ELSE LET shorter == SeqsUpTo(S, n - 1)
         IN  shorter \cup { Append(s, e) : s \in { t \in shorter : Len(t) = n - 1 }, e \in S }

\* the decoded "results" arrays of the bodies the upstream can send
Results == SeqsUpTo(JobRecords, MaxJobs)

\* the decoded "results" arrays of a first response
FirstResults == SeqsUpTo(FirstJobRecords, MaxJobs)

\* a body that json.Decoder rejects
Malformed == [decodable |-> FALSE, results |-> <<>>]

\* the bodies the upstream can send
Bodies == { [decodable |-> TRUE, results |-> r] : r \in Results } \cup { Malformed }

\* HTTP status codes of the upstream's answer
StatusCodes == { 200, 401 }

\* the configurations loadConfig can leave behind
Policies ==
    { [enabled |-> e, organizations |-> o, labels |-> l] :
        e \in BOOLEAN,
        o \in { <<"A">>, <<"B", "A">> },
        l \in { <<"prod">>, <<"prod", "dev">> } }

\* the map a Go make(map...) returns
EmptyMap == [k \in {} |-> 0]

(* ------------------------------ state --------------------------------- *)

VARIABLES
    whitelistOrganizations,       \* []string, set once by loadConfig
    whitelistLabels,              \* []string, set once by loadConfig
    whitelistEnabled,             \* bool, set once by loadConfig
    urlValid,                     \* whether http.NewRequest accepts awx.api_url
    awxJobsTotal,                 \* the GaugeVec: label values -> gauge value
    pc,                           \* position of the poll goroutine
    resp,                         \* the *http.Response inside fetchAWXJobData
    awxResponse,                  \* Results of the decoded response
    err,                          \* err returned by the last fetchAWXJobData
    idx,                          \* records of awxResponse.Results ranged over
    jobCountByOrgStatusAndLabel,  \* the nested count map of this cycle
    pending,                      \* map entries the publish loops still visit
    cur,                          \* the (org, status, labels, count) in hand
    scraped                       \* the gauge the /metrics handler read last

vars ==
    << whitelistOrganizations, whitelistLabels, whitelistEnabled, urlValid,
       awxJobsTotal, pc, resp, awxResponse, err, idx,
       jobCountByOrgStatusAndLabel, pending, cur, scraped >>

config == << whitelistOrganizations, whitelistLabels, whitelistEnabled, urlValid >>

NoResp == [status |-> 0, body |-> Malformed]
NoCur  == [key |-> << "", "", "" >>, count |-> 0]
NoScrape == [key |-> << "", "", "" >>, value |-> -1]

(* --------------------------- pure functions --------------------------- *)

Range(seq) == { seq[i] : i \in 1 .. Len(seq) }

\* contains: linear scan with ==
RECURSIVE contains(_, _)
contains(slice, item) ==
    IF slice = <<>> THEN FALSE
    ELSE IF Head(slice) = item THEN TRUE
    ELSE contains(Tail(slice), item)

\* the label loop of isWhitelisted
RECURSIVE anyLabelWhitelisted(_, _)
anyLabelWhitelisted(allowed, jobLabels) ==
    IF jobLabels = <<>> THEN FALSE
    ELSE IF contains(allowed, Head(jobLabels)) THEN TRUE
    ELSE anyLabelWhitelisted(allowed, Tail(jobLabels))

\* isWhitelisted that checks the organization only
isWhitelisted_OrganizationOnly(organization, jobLabels) ==
    contains(whitelistOrganizations, organization)

isWhitelisted(organization, jobLabels) ==
    IF ~contains(whitelistOrganizations, organization) THEN FALSE
    ELSE anyLabelWhitelisted(whitelistLabels, jobLabels)

\* the place of a label name in sort.Strings order
LexRank(name) ==
    CASE name = "" -> 0
      [] name = "dev" -> 1
      [] name = "prod" -> 2
      [] OTHER -> 3

RECURSIVE JoinInOrder(_, _)
JoinInOrder(elems, sep) ==
    IF elems = <<>> THEN ""
    ELSE IF Len(elems) = 1 THEN elems[1]
    ELSE elems[1] \o sep \o JoinInOrder(Tail(elems), sep)

\* the labels are sorted (sort.Strings) before they are joined
Join_Sorted(elems, sep) ==
    LET n == Len(elems)
        sorted == CHOOSE t \in [1 .. n -> Range(elems)] :
                    /\ \E f \in Permutations(1 .. n) : \A i \in 1 .. n : t[i] = elems[f[i]]
                    /\ \A i \in 1 .. n - 1 : LexRank(t[i]) <= LexRank(t[i + 1])
    IN  JoinInOrder(sorted, sep)

\* strings.Join(elems, sep)
RECURSIVE Join(_, _)
Join(elems, sep) ==
    IF elems = <<>> THEN ""
    ELSE IF Len(elems) = 1 THEN elems[1]
    ELSE elems[1] \o sep \o Join(Tail(elems), sep)

\* float64(count): exact for every int below 2^53, which a count of the
\* records of one response always is
Float64(count) == count

\* fetchAWXJobData after client.Do returned r without error: only the
\* decoding of the body decides, the status code is never read
DecodeResponse(r) ==
    IF ~r.body.decodable
    THEN [err |-> TRUE, results |-> <<>>]
    ELSE [err |-> FALSE, results |-> r.body.results]

\* the inner maps are created but the ++ of line 170 is left out when the
\* entry is new
IncrementCount_NewEntryAtZero(m, orgName, jobStatus, combinedLabels) ==
    LET m1 == IF orgName \in DOMAIN m THEN m ELSE (orgName :> EmptyMap) @@ m
        m2 == IF jobStatus \in DOMAIN m1[orgName] THEN m1
              ELSE [m1 EXCEPT ![orgName] = (jobStatus :> EmptyMap) @@ @]
        new == IF combinedLabels \in DOMAIN m2[orgName][jobStatus]
               THEN m2[orgName][jobStatus][combinedLabels] + 1 ELSE 0
    IN  [m2 EXCEPT ![orgName][jobStatus] = (combinedLabels :> new) @@ @]

\* the status map is made anew for every record (the exists check of
\* line 166 is left out)
IncrementCount_RemakesStatusMap(m, orgName, jobStatus, combinedLabels) ==
    LET m1 == IF orgName \in DOMAIN m THEN m ELSE (orgName :> EmptyMap) @@ m
        m2 == [m1 EXCEPT ![orgName] = (jobStatus :> EmptyMap) @@ @]
    IN  [m2 EXCEPT ![orgName][jobStatus] = (combinedLabels :> 1) @@ @]

\* lines 163-170: create the inner maps that are missing, then ++
IncrementCount(m, orgName, jobStatus, combinedLabels) ==
    LET m1 == IF orgName \in DOMAIN m THEN m ELSE (orgName :> EmptyMap) @@ m
        m2 == IF jobStatus \in DOMAIN m1[orgName] THEN m1
              ELSE [m1 EXCEPT ![orgName] = (jobStatus :> EmptyMap) @@ @]
        old == IF combinedLabels \in DOMAIN m2[orgName][jobStatus]
               THEN m2[orgName][jobStatus][combinedLabels] ELSE 0
    IN  [m2 EXCEPT ![orgName][jobStatus] = (combinedLabels :> (old + 1)) @@ @]

\* the loop body filtering whether or not the whitelist is enabled
CountJob_AlwaysFilters(m, job) ==
    IF ~isWhitelisted(job.Organization, job.Labels)
    THEN m
    ELSE IncrementCount(m, job.Organization, job.Status, Join(job.Labels, ","))

\* only the first label makes the combined labels
CountJob_FirstLabelOnly(m, job) ==
    LET orgName        == job.Organization
        jobLabels      == job.Labels
        combinedLabels == IF jobLabels = <<>> THEN "" ELSE jobLabels[1]
    IN  IF whitelistEnabled /\ ~isWhitelisted(orgName, jobLabels)
        THEN m
        ELSE IncrementCount(m, orgName, job.Status, combinedLabels)

\* a rejected job is logged but the continue of line 157 is left out
CountJob_NoContinue(m, job) ==
    IncrementCount(m, job.Organization, job.Status, Join(job.Labels, ","))

\* the body of the loop over awxResponse.Results, lines 144-170
CountJob(m, job) ==
    LET orgName        == job.Organization
        jobLabels      == job.Labels
        combinedLabels == Join(jobLabels, ",")
    IN  IF whitelistEnabled /\ ~isWhitelisted(orgName, jobLabels)
        THEN m
        ELSE IncrementCount(m, orgName, job.Status, combinedLabels)

\* lines 141-171 run to their end: the count map of the records of results
\* on top of the map m
RECURSIVE AggregateFrom(_, _)
AggregateFrom(m, results) ==
    IF results = <<>> THEN m
    ELSE AggregateFrom(CountJob(m, Head(results)), Tail(results))

\* lines 141-171: the count map of a whole response
Aggregate(results) == AggregateFrom(EmptyMap, results)

\* the (org, status, labels) triples the three nested range loops visit
MapEntries(m) ==
    UNION { UNION { { << o, s, l >> : l \in DOMAIN m[o][s] } : s \in DOMAIN m[o] } :
            o \in DOMAIN m }

CountOf(m, k) == m[k[1]][k[2]][k[3]]

\* Go ranges over a map in an unspecified order, but an inner loop runs to
\* its end before the enclosing loop moves on: entry k can be visited next
\* when no organization, and no status map, that was already entered has
\* other entries left
CanVisitNext(m, left, k) ==
    LET visited == MapEntries(m) \ left
    IN  /\ k \in left
        /\ \A p \in left :
              (\E v \in visited : v[1] = p[1]) => k[1] = p[1]
        /\ \A p \in left :
              (\E v \in visited : v[1] = p[1] /\ v[2] = p[2])
                  => (k[1] = p[1] /\ k[2] = p[2])

\* creating a child gauge drops the children the vector had
WithLabelValues_DropsOthers(vec, lvs) ==
    IF lvs \in DOMAIN vec THEN vec ELSE (lvs :> 0)

\* GaugeVec.WithLabelValues: get the child gauge, creating it at 0
WithLabelValues(vec, lvs) ==
    IF lvs \in DOMAIN vec THEN vec ELSE (lvs :> 0) @@ vec

\* Gauge.Add in the place of Gauge.Set
Set_Add(vec, lvs, val) == [vec EXCEPT ![lvs] = @ + val]

\* Gauge.Set on the child of lvs
Set(vec, lvs, val) == [vec EXCEPT ![lvs] = val]

\* lines 174-180 run to their end over the entries of m that are left
RECURSIVE PublishEntries(_, _, _)
PublishEntries(vec, m, left) ==
    IF left = {} THEN vec
    ELSE LET k == CHOOSE e \in left : CanVisitNext(m, left, e)
         IN  PublishEntries(Set(WithLabelValues(vec, k), k, Float64(CountOf(m, k))),
                            m, left \ { k })

\* lines 174-180: the whole publish of the count map m
Publish(vec, m) == PublishEntries(vec, m, MapEntries(m))

(* ------------------------------ actions ------------------------------- *)

Init ==
    /\ \E p \in Policies :
          /\ whitelistEnabled = p.enabled
          /\ whitelistOrganizations = p.organizations
          /\ whitelistLabels = p.labels
    /\ urlValid \in BOOLEAN
    /\ awxJobsTotal = EmptyMap
    /\ pc = "fetch"
    /\ resp = NoResp
    /\ awxResponse = <<>>
    /\ err = FALSE
    /\ idx = 0
    /\ jobCountByOrgStatusAndLabel = EmptyMap
    /\ pending = {}
    /\ cur = NoCur
    /\ scraped = NoScrape

\* lines 131-135, 82-85: http.NewRequest rejects the URL; the loop continues
RequestRejected ==
    /\ pc = "fetch"
    /\ ~urlValid
    /\ err' = TRUE
    /\ UNCHANGED << config, scraped, awxJobsTotal, pc, resp, awxResponse, idx,
                    jobCountByOrgStatusAndLabel, pending, cur >>

\* lines 89-92, 136-139: client.Do fails (transport failure or the 10 s
\* timeout); the loop continues
TransportFailure ==
    /\ pc = "fetch"
    /\ urlValid
    /\ err' = TRUE
    /\ UNCHANGED << config, scraped, awxJobsTotal, pc, resp, awxResponse, idx,
                    jobCountByOrgStatusAndLabel, pending, cur >>

\* lines 89-93: client.Do returns the upstream's answer
Respond ==
    /\ pc = "fetch"
    /\ urlValid
    /\ \E status \in StatusCodes, body \in Bodies :
          resp' = [status |-> status, body |-> body]
    /\ pc' = "decode"
    /\ UNCHANGED << config, scraped, awxJobsTotal, awxResponse, err, idx,
                    jobCountByOrgStatusAndLabel, pending, cur >>

\* the failed cycle resets the gauge vector
DecodeFailure_ResetsGauges ==
    /\ pc = "decode"
    /\ DecodeResponse(resp).err
    /\ err' = TRUE
    /\ resp' = NoResp
    /\ pc' = "fetch"
    /\ awxJobsTotal' = EmptyMap
    /\ UNCHANGED << config, scraped, awxResponse, idx,
                    jobCountByOrgStatusAndLabel, pending, cur >>

\* the goroutine returns on the error instead of continuing the loop
DecodeFailure_Returns ==
    /\ pc = "decode"
    /\ DecodeResponse(resp).err
    /\ err' = TRUE
    /\ resp' = NoResp
    /\ pc' = "returned"
    /\ UNCHANGED << config, scraped, awxJobsTotal, awxResponse, idx,
                    jobCountByOrgStatusAndLabel, pending, cur >>

\* lines 95-98, 136-139: the body does not decode; the loop continues
DecodeFailure ==
    /\ pc = "decode"
    /\ DecodeResponse(resp).err
    /\ err' = TRUE
    /\ resp' = NoResp
    /\ pc' = "fetch"
    /\ UNCHANGED << config, scraped, awxJobsTotal, awxResponse, idx,
                    jobCountByOrgStatusAndLabel, pending, cur >>

\* the count map is made once, outside the loop, and carried over
DecodeSuccess_KeepsMap ==
    /\ pc = "decode"
    /\ ~DecodeResponse(resp).err
    /\ err' = FALSE
    /\ awxResponse' = DecodeResponse(resp).results
    /\ resp' = NoResp
    /\ idx' = 0
    /\ pc' = "aggregate"
    /\ UNCHANGED << config, scraped, awxJobsTotal, jobCountByOrgStatusAndLabel,
                    pending, cur >>

\* lines 95-100, 136, 141: the body decodes; a fresh count map is made
DecodeSuccess ==
    /\ pc = "decode"
    /\ ~DecodeResponse(resp).err
    /\ err' = FALSE
    /\ awxResponse' = DecodeResponse(resp).results
    /\ resp' = NoResp
    /\ jobCountByOrgStatusAndLabel' = EmptyMap
    /\ idx' = 0
    /\ pc' = "aggregate"
    /\ UNCHANGED << config, scraped, awxJobsTotal, pending, cur >>

\* the gauges are published inside the loop over the results, after
\* every record
AggregateJob_PublishesEarly ==
    /\ pc = "aggregate"
    /\ idx < Len(awxResponse)
    /\ jobCountByOrgStatusAndLabel' =
          CountJob(jobCountByOrgStatusAndLabel, awxResponse[idx + 1])
    /\ idx' = idx + 1
    /\ awxJobsTotal' = Publish(awxJobsTotal, jobCountByOrgStatusAndLabel')
    /\ UNCHANGED << config, scraped, pc, resp, awxResponse, err, pending, cur >>

\* lines 143-171: one iteration of the loop over the results
AggregateJob ==
    /\ pc = "aggregate"
    /\ idx < Len(awxResponse)
    /\ jobCountByOrgStatusAndLabel' =
          CountJob(jobCountByOrgStatusAndLabel, awxResponse[idx + 1])
    /\ idx' = idx + 1
    /\ UNCHANGED << config, scraped, awxJobsTotal, pc, resp, awxResponse, err,
                    pending, cur >>

\* the gauge vector is reset before the map is published
AggregateDone_ResetsGauges ==
    /\ pc = "aggregate"
    /\ idx = Len(awxResponse)
    /\ pending' = MapEntries(jobCountByOrgStatusAndLabel)
    /\ awxJobsTotal' = EmptyMap
    /\ pc' = "publish"
    /\ UNCHANGED << config, scraped, resp, awxResponse, err, idx,
                    jobCountByOrgStatusAndLabel, cur >>

\* lines 143, 174: the results are exhausted, the range over the map starts
AggregateDone ==
    /\ pc = "aggregate"
    /\ idx = Len(awxResponse)
    /\ pending' = MapEntries(jobCountByOrgStatusAndLabel)
    /\ pc' = "publish"
    /\ UNCHANGED << config, scraped, awxJobsTotal, resp, awxResponse, err, idx,
                    jobCountByOrgStatusAndLabel, cur >>

\* lines 174-177: the loops yield an entry and WithLabelValues gets its gauge
PublishLookup ==
    /\ pc = "publish"
    /\ \E k \in pending :
          /\ CanVisitNext(jobCountByOrgStatusAndLabel, pending, k)
          /\ cur' = [key |-> k, count |-> CountOf(jobCountByOrgStatusAndLabel, k)]
          /\ awxJobsTotal' = WithLabelValues(awxJobsTotal, k)
    /\ pc' = "set"
    /\ UNCHANGED << config, scraped, resp, awxResponse, err, idx,
                    jobCountByOrgStatusAndLabel, pending >>

\* the gauge is looked up but Set is not called on it
PublishSet_SkipsSet ==
    /\ pc = "set"
    /\ pending' = pending \ { cur.key }
    /\ cur' = NoCur
    /\ pc' = "publish"
    /\ UNCHANGED << config, scraped, awxJobsTotal, resp, awxResponse, err, idx,
                    jobCountByOrgStatusAndLabel >>

\* line 177: Set(float64(count)) on that gauge
PublishSet ==
    /\ pc = "set"
    /\ awxJobsTotal' = Set(awxJobsTotal, cur.key, Float64(cur.count))
    /\ pending' = pending \ { cur.key }
    /\ cur' = NoCur
    /\ pc' = "publish"
    /\ UNCHANGED << config, scraped, resp, awxResponse, err, idx,
                    jobCountByOrgStatusAndLabel >>

\* gauges of keys the map lacks are set to 0 when the publish is done
PublishDone_ZeroesStale ==
    /\ pc = "publish"
    /\ pending = {}
    /\ awxJobsTotal' =
          [k \in DOMAIN awxJobsTotal |->
              IF k \in MapEntries(jobCountByOrgStatusAndLabel)
              THEN awxJobsTotal[k] ELSE 0]
    /\ pc' = "sleep"
    /\ UNCHANGED << config, scraped, resp, awxResponse, err, idx,
                    jobCountByOrgStatusAndLabel, pending, cur >>

\* lines 174-182: every entry was visited
PublishDone ==
    /\ pc = "publish"
    /\ pending = {}
    /\ pc' = "sleep"
    /\ UNCHANGED << config, scraped, awxJobsTotal, resp, awxResponse, err, idx,
                    jobCountByOrgStatusAndLabel, pending, cur >>

\* lines 182-183, 130: time.Sleep returns and the loop starts over
Sleep ==
    /\ pc = "sleep"
    /\ pc' = "fetch"
    /\ UNCHANGED << config, scraped, awxJobsTotal, resp, awxResponse, err, idx,
                    jobCountByOrgStatusAndLabel, pending, cur >>

Next ==
    \/ RequestRejected
    \/ TransportFailure
    \/ Respond
    \/ DecodeFailure
    \/ DecodeSuccess
    \/ AggregateJob
    \/ AggregateDone
    \/ PublishLookup
    \/ PublishSet
    \/ PublishDone
    \/ Sleep

Spec == Init /\ [][Next]_vars

\* the poll task right after its first fetch returned a decoded response
\* (lines 135-141), before the first record is ranged over
InitFirstResponse ==
    /\ \E p \in Policies :
          /\ whitelistEnabled = p.enabled
          /\ whitelistOrganizations = p.organizations
          /\ whitelistLabels = p.labels
    /\ urlValid = TRUE
    /\ awxJobsTotal = EmptyMap
    /\ pc = "aggregate"
    /\ resp = NoResp
    /\ awxResponse \in FirstResults
    /\ err = FALSE
    /\ idx = 0
    /\ jobCountByOrgStatusAndLabel = EmptyMap
    /\ pending = {}
    /\ cur = NoCur
    /\ scraped = NoScrape

\* the aggregation of that response, lines 143-174
NextAggregate ==
    \/ AggregateJob
    \/ AggregateDone

SpecAggregate == InitFirstResponse /\ [][NextAggregate]_vars

\* lines 190-192: the /metrics handler, in a goroutine of the HTTP server,
\* collects the vector and reads the value of one of its gauges
Scrape ==
    /\ \E k \in DOMAIN awxJobsTotal :
          scraped' = [key |-> k, value |-> awxJobsTotal[k]]
    /\ UNCHANGED << config, awxJobsTotal, pc, resp, awxResponse, err, idx,
                    jobCountByOrgStatusAndLabel, pending, cur >>

\* the poll task and the scrapes of the /metrics endpoint, interleaved
NextScrape ==
    \/ Next
    \/ Scrape

\* the exporter started with the whitelist on and both organizations and
\* both labels listed (lines 55-72), so that two keys are published
InitWhitelistOn ==
    /\ Init
    /\ whitelistEnabled
    /\ whitelistOrganizations = << "B", "A" >>
    /\ whitelistLabels = << "prod", "dev" >>

SpecScrape == InitWhitelistOn /\ [][NextScrape]_vars

\* lines 129-184: the steps of the goroutine that follow the return of
\* fetchAWXJobData; none of them waits for anything but the scheduler and
\* the 10 s timer of time.Sleep
RunsOn ==
    \/ DecodeFailure
    \/ DecodeSuccess
    \/ AggregateJob
    \/ AggregateDone
    \/ PublishLookup
    \/ PublishSet
    \/ PublishDone
    \/ Sleep

\* the poll task is scheduled again and again: a step of it that can be
\* taken is taken; whether a fetch fails or is answered is up to the upstream
SpecFair == InitWhitelistOn /\ [][Next]_vars /\ WF_vars(RunsOn)

(* ---------------------- vocabulary of the claims ---------------------- *)

\* a step in which fetchAWXJobData returns to the loop
FetchReturns == pc \in { "fetch", "decode" } /\ pc' # "decode"

\* the positions of the aggregation and publish steps of a cycle
CountingOrPublishing == { "aggregate", "publish", "set" }

\* the whitelist rule as the specification words it
Allowed(job) ==
    /\ job.Organization \in Range(whitelistOrganizations)
    /\ Range(job.Labels) \cap Range(whitelistLabels) # {}

PassesFilter(job) == ~whitelistEnabled \/ Allowed(job)

KeyOf(job) == << job.Organization, job.Status, Join(job.Labels, ",") >>

\* the records of the current response ranged over so far that pass the
\* filter and have key k
CountedFor(k) ==
    { i \in 1 .. idx : PassesFilter(awxResponse[i]) /\ KeyOf(awxResponse[i]) = k }

RECURSIVE SumCounts(_, _)
SumCounts(m, entries) ==
    IF entries = {} THEN 0
    ELSE LET k == CHOOSE e \in entries : TRUE
         IN  CountOf(m, k) + SumCounts(m, entries \ { k })

(* -------------------------------- C1 ---------------------------------- *)

\* C1: a poll cycle whose fetch returns an error leaves the gauges exactly
\* as they were: no step of the fetch changes a gauge, and when the fetch
\* returns an error the count map is not touched and the task does not go
\* on to an aggregation or publish step.
C1_FailedFetchLeavesGauges ==
    [][ /\ pc \in { "fetch", "decode" } => awxJobsTotal' = awxJobsTotal
        /\ (FetchReturns /\ err') =>
              /\ pc' \notin CountingOrPublishing
              /\ jobCountByOrgStatusAndLabel' = jobCountByOrgStatusAndLabel
              /\ pending' = pending ]_vars

\* a fetch has failed after an earlier cycle published gauges
C1_Witness ==
    /\ pc = "fetch"
    /\ err
    /\ \E k \in DOMAIN awxJobsTotal : awxJobsTotal[k] >= 1

(* -------------------------------- C2 ---------------------------------- *)

\* C2: after a fetch that failed the poll task sleeps the poll interval
\* before it fetches again, as it does after a fetch that succeeded.
C2_SleepAfterFailedFetch ==
    [][ (FetchReturns /\ err') => pc' = "sleep" ]_vars

(* -------------------------------- C3 ---------------------------------- *)

\* C3: a response with a non-2xx status is a fetch failure whatever its
\* body, as are an undecodable body and a transport failure: fetch returns
\* an error and the cycle goes on to no aggregation or publish step.
C3_Non2xxIsFetchFailure ==
    [][ ( \/ pc = "fetch" /\ pc' # "decode"
          \/ pc = "decode" /\ ~resp.body.decodable
          \/ pc = "decode" /\ resp.status \notin 200 .. 299 )
        => (err' /\ pc' \notin CountingOrPublishing) ]_vars

(* -------------------------------- C4 ---------------------------------- *)

\* C4: with the whitelist enabled a job is counted exactly when its
\* organization is an allowed organization and at least one of its labels
\* is an allowed label; a job without labels, or of another organization,
\* is not counted.
C4_WhitelistRule ==
    [][ (pc = "aggregate" /\ idx' = idx + 1 /\ whitelistEnabled) =>
          ( jobCountByOrgStatusAndLabel' # jobCountByOrgStatusAndLabel
              <=> Allowed(awxResponse[idx + 1]) ) ]_vars

\* with the whitelist enabled, a job of an allowed organization without
\* labels and a job of another organization carrying an allowed label were
\* both passed over, and a third job, whose second label only is allowed,
\* was counted
C4_Witness ==
    /\ whitelistEnabled
    /\ pc = "aggregate"
    /\ idx = 3
    /\ \E i, j \in 1 .. 2 :
          /\ awxResponse[i].Labels = <<>>
          /\ contains(whitelistOrganizations, awxResponse[i].Organization)
          /\ ~contains(whitelistOrganizations, awxResponse[j].Organization)
          /\ \E l \in Range(awxResponse[j].Labels) : contains(whitelistLabels, l)
    /\ Len(awxResponse[3].Labels) = 2
    /\ ~contains(whitelistLabels, awxResponse[3].Labels[1])
    /\ MapEntries(jobCountByOrgStatusAndLabel) = { KeyOf(awxResponse[3]) }

(* -------------------------------- C5 ---------------------------------- *)

\* C5: with the whitelist disabled every record ranged over is counted,
\* whatever the allowed lists hold: the counts of the map add up to the
\* number of records ranged over, which is the whole response once the
\* aggregation is done.
C5_DisabledCountsAll ==
    (~whitelistEnabled /\ pc \in { "aggregate", "publish", "set", "sleep" }) =>
        /\ SumCounts(jobCountByOrgStatusAndLabel,
                     MapEntries(jobCountByOrgStatusAndLabel)) = idx
        /\ pc # "aggregate" => idx = Len(awxResponse)

\* whitelist disabled, a full response with a record without labels and a
\* record of an organization outside the list has been aggregated
C5_Witness ==
    /\ ~whitelistEnabled
    /\ pc = "publish"
    /\ Len(awxResponse) = MaxJobs
    /\ \E i \in 1 .. Len(awxResponse) : awxResponse[i].Labels = <<>>
    /\ \E i \in 1 .. Len(awxResponse) :
          ~contains(whitelistOrganizations, awxResponse[i].Organization)
    /\ SumCounts(jobCountByOrgStatusAndLabel,
                 MapEntries(jobCountByOrgStatusAndLabel)) = MaxJobs

(* -------------------------------- C6 ---------------------------------- *)

ExampleResults ==
    << Job("A", "ok", <<"prod">>), Job("A", "ok", <<"prod">>),
       Job("B", "failed", <<"dev">>) >>

ExampleIsConfigured ==
    whitelistOrganizations = <<"A">> /\ whitelistLabels = <<"prod">>

\* C6: the count map of a cycle is determined by the records of the
\* current response ranged over and by the whitelist: its keys are the
\* keys of the passing records and each count is the number of passing
\* records with that key, whatever earlier cycles counted; the three
\* example records give {(A,ok,"prod"):2, (B,failed,"dev"):1} with the
\* whitelist disabled and {(A,ok,"prod"):2} with [A], [prod] enabled.
C6_MapOfCurrentResponse ==
    (pc \in { "aggregate", "publish", "set", "sleep" }) =>
        /\ MapEntries(jobCountByOrgStatusAndLabel) =
              { KeyOf(awxResponse[i]) :
                  i \in { j \in 1 .. idx : PassesFilter(awxResponse[j]) } }
        /\ \A k \in MapEntries(jobCountByOrgStatusAndLabel) :
              CountOf(jobCountByOrgStatusAndLabel, k) = Cardinality(CountedFor(k))
        /\ (pc # "aggregate" /\ awxResponse = ExampleResults /\ ~whitelistEnabled) =>
              jobCountByOrgStatusAndLabel =
                  ( "A" :> ("ok" :> ("prod" :> 2)) ) @@
                  ( "B" :> ("failed" :> ("dev" :> 1)) )
        /\ (pc # "aggregate" /\ awxResponse = ExampleResults /\ whitelistEnabled
                /\ ExampleIsConfigured) =>
              jobCountByOrgStatusAndLabel = ( "A" :> ("ok" :> ("prod" :> 2)) )

\* the example records were aggregated in a later cycle, the lists being
\* [A] and [prod] and the whitelist disabled, while the gauges hold a key
\* of an earlier cycle that this cycle's map does not have
C6_Witness ==
    /\ pc = "publish"
    /\ awxResponse = ExampleResults
    /\ ExampleIsConfigured
    /\ ~whitelistEnabled
    /\ MapEntries(jobCountByOrgStatusAndLabel) =
          { << "A", "ok", "prod" >>, << "B", "failed", "dev" >> }
    /\ \E k \in DOMAIN awxJobsTotal :
          k \notin MapEntries(jobCountByOrgStatusAndLabel)

(* -------------------------------- C7 ---------------------------------- *)

\* C7: in every state, between two records included, every key of the
\* count map has a count of at least 1 and is the key of a record of the
\* current response that was ranged over and passed the filter.
C7_KeysHavePassingRecord ==
    \A k \in MapEntries(jobCountByOrgStatusAndLabel) :
        /\ CountOf(jobCountByOrgStatusAndLabel, k) >= 1
        /\ CountedFor(k) # {}

\* between two records, with the whitelist enabled: one record was
\* rejected, another was counted, a third is still to come
C7_Witness ==
    /\ whitelistEnabled
    /\ pc = "aggregate"
    /\ idx = 2
    /\ Len(awxResponse) = 3
    /\ \E i \in 1 .. 2 : ~Allowed(awxResponse[i])
    /\ MapEntries(jobCountByOrgStatusAndLabel) # {}

(* -------------------------------- C8 ---------------------------------- *)

\* C8: when the publish step of a cycle has completed, the gauge of every
\* key of the cycle's count map holds that cycle's count of the key,
\* whatever it held before.
C8_PublishSetsCount ==
    pc = "sleep" =>
        \A k \in MapEntries(jobCountByOrgStatusAndLabel) :
            /\ k \in DOMAIN awxJobsTotal
            /\ awxJobsTotal[k] = CountOf(jobCountByOrgStatusAndLabel, k)

\* a publish has set one gauge to this cycle's count and is about to set
\* a gauge that still holds another count, published by an earlier cycle
C8_Witness ==
    /\ pc = "set"
    /\ awxJobsTotal[cur.key] \notin { 0, cur.count }
    /\ \E v \in MapEntries(jobCountByOrgStatusAndLabel) \ pending :
          awxJobsTotal[v] = CountOf(jobCountByOrgStatusAndLabel, v)

(* -------------------------------- C9 ---------------------------------- *)

\* C9: a gauge key is never removed and a published value never becomes 0:
\* every step keeps every key, keeps a value that is not 0 from becoming 0,
\* and changes the value of a key only if the count map of the cycle in
\* progress has that key.
C9_GaugesAreNeverCleared ==
    [][ \A k \in DOMAIN awxJobsTotal :
          /\ k \in DOMAIN awxJobsTotal'
          /\ awxJobsTotal[k] # 0 => awxJobsTotal'[k] # 0
          /\ awxJobsTotal'[k] # awxJobsTotal[k] =>
                ( pc = "set" /\ k \in MapEntries(jobCountByOrgStatusAndLabel) ) ]_vars

\* a later cycle that counted other keys, or none, has published and a
\* key of an earlier cycle still holds its count
C9_Witness ==
    /\ pc = "sleep"
    /\ \E k \in DOMAIN awxJobsTotal :
          /\ k \notin MapEntries(jobCountByOrgStatusAndLabel)
          /\ awxJobsTotal[k] >= 1

(* -------------------------------- C10 --------------------------------- *)

\* the gauges are as a publish of the count map m leaves them
HoldsCountsOf(m) ==
    \A k \in MapEntries(m) :
        k \in DOMAIN awxJobsTotal /\ awxJobsTotal[k] = CountOf(m, k)

\* C10: publishing is idempotent: when a publish has completed, publishing
\* the same count map once more leaves every gauge as it is, whatever the
\* gauges held when the completed publish started; and no step of a
\* publish that starts from the gauges a publish of the same counts left
\* behind changes a gauge.
C10_PublishIsIdempotent ==
    /\ [](pc = "sleep" =>
            Publish(awxJobsTotal, jobCountByOrgStatusAndLabel) = awxJobsTotal)
    /\ [][ (pc \in { "publish", "set" }
              /\ HoldsCountsOf(jobCountByOrgStatusAndLabel))
           => awxJobsTotal' = awxJobsTotal ]_vars

\* the publish of a later cycle has set one of two gauges, and all the
\* gauges of its map, the one still to set included, hold the counts of
\* this map: the cycle before published the same counts
C10_Witness ==
    /\ pc = "publish"
    /\ Cardinality(MapEntries(jobCountByOrgStatusAndLabel)) >= 2
    /\ Cardinality(pending) = 1
    /\ HoldsCountsOf(jobCountByOrgStatusAndLabel)

(* -------------------------------- C11 --------------------------------- *)

LabelsXY == <<"prod", "dev">>
LabelsYX == <<"dev", "prod">>

\* C11: the combined labels are the labels joined with "," in the order of
\* the response, neither sorted nor de-duplicated: a counted record with
\* labels [prod,dev] is counted under "prod,dev" and one with [dev,prod]
\* under "dev,prod", and a response of two records of one organization
\* and status with these labels gives two keys with count 1 each.
C11_JoinKeepsLabelOrder ==
    pc = "publish" =>
        /\ \A i \in 1 .. Len(awxResponse) :
              LET job == awxResponse[i]
              IN  /\ (PassesFilter(job) /\ job.Labels = LabelsXY) =>
                        << job.Organization, job.Status, "prod,dev" >>
                            \in MapEntries(jobCountByOrgStatusAndLabel)
                  /\ (PassesFilter(job) /\ job.Labels = LabelsYX) =>
                        << job.Organization, job.Status, "dev,prod" >>
                            \in MapEntries(jobCountByOrgStatusAndLabel)
        /\ ( /\ Len(awxResponse) = 2
             /\ PassesFilter(awxResponse[1])
             /\ awxResponse[1].Organization = awxResponse[2].Organization
             /\ awxResponse[1].Status = awxResponse[2].Status
             /\ { awxResponse[1].Labels, awxResponse[2].Labels } = { LabelsXY, LabelsYX } )
            => LET o  == awxResponse[1].Organization
                   st == awxResponse[1].Status
               IN  jobCountByOrgStatusAndLabel =
                       ( o :> (st :> (("prod,dev" :> 1) @@ ("dev,prod" :> 1))) )

\* two records of organization A and status ok, one with labels [prod,dev]
\* and one with [dev,prod], have been aggregated into two keys
C11_Witness ==
    /\ pc = "publish"
    /\ awxResponse = << Job("A", "ok", LabelsYX), Job("A", "ok", LabelsXY) >>
    /\ Cardinality(MapEntries(jobCountByOrgStatusAndLabel)) = 2

(* -------------------------------- C12 --------------------------------- *)

\* the records of results in the order f
Reordered(results, f) == [i \in 1 .. Len(results) |-> results[f[i]]]

\* C12: the count map does not depend on the order of the records: when a
\* response has been aggregated, aggregating its records in any other
\* order, each record keeping its labels as they are, gives the same map,
\* with the whitelist enabled or disabled.
C12_RecordOrderIsIrrelevant ==
    pc = "publish" =>
        \A f \in Permutations(1 .. Len(awxResponse)) :
            Aggregate(Reordered(awxResponse, f)) = jobCountByOrgStatusAndLabel

\* three different records, two of them of one organization and status,
\* have been aggregated into three keys
C12_Witness ==
    /\ pc = "publish"
    /\ Len(awxResponse) = 3
    /\ Cardinality(Range(awxResponse)) = 3
    /\ \E i, j \in 1 .. 3 :
          /\ i # j
          /\ awxResponse[i].Organization = awxResponse[j].Organization
          /\ awxResponse[i].Status = awxResponse[j].Status
    /\ Cardinality(MapEntries(jobCountByOrgStatusAndLabel)) = 3

(* -------------------------------- C20 --------------------------------- *)

\* the (organization, status, label sequence) triples of the records of
\* the current response that pass the filter
CountedTriples ==
    { << awxResponse[i].Organization, awxResponse[i].Status, awxResponse[i].Labels >> :
        i \in { j \in 1 .. Len(awxResponse) : PassesFilter(awxResponse[j]) } }

\* label names that are not empty and hold no comma
PlainLabelNames == { "prod", "dev" }

HasPlainLabels(job) == Range(job.Labels) \subseteq PlainLabelNames

\* C20 as claimed: records are counted under one key only if they have
\* the same organization, status and label sequence, so the count map has
\* as many keys as the counted records have different (organization,
\* status, label sequence) triples.
C20_SequencesNeverCollapse ==
    pc = "publish" =>
        Cardinality(MapEntries(jobCountByOrgStatusAndLabel)) =
            Cardinality(CountedTriples)

\* C20 as amended: counted records whose labels are all non-empty and free
\* of commas are counted under one key only if they have the same
\* organization, status and label sequence; a label sequence with an empty
\* label or a label holding a comma can share its key with another one:
\* [] and [""] are both counted under "", ["prod,dev"] and ["prod","dev"]
\* both under "prod,dev".
C20_PlainSequencesNeverCollapse ==
    pc = "publish" =>
        /\ (\A i \in 1 .. Len(awxResponse) : HasPlainLabels(awxResponse[i])) =>
              Cardinality(MapEntries(jobCountByOrgStatusAndLabel)) =
                  Cardinality(CountedTriples)
        /\ (~whitelistEnabled
              /\ Range(awxResponse) = { Job("A", "ok", <<>>), Job("A", "ok", <<"">>) }) =>
              MapEntries(jobCountByOrgStatusAndLabel) = { << "A", "ok", "" >> }
        /\ (~whitelistEnabled
              /\ Range(awxResponse) =
                    { Job("A", "ok", <<"prod,dev">>), Job("A", "ok", <<"prod", "dev">>) }) =>
              MapEntries(jobCountByOrgStatusAndLabel) = { << "A", "ok", "prod,dev" >> }

\* three counted records with plain labels, two of them differing in
\* their label sequence only, have been aggregated into three keys
C20_Witness ==
    /\ pc = "publish"
    /\ Len(awxResponse) = 3
    /\ \A i \in 1 .. 3 : HasPlainLabels(awxResponse[i]) /\ PassesFilter(awxResponse[i])
    /\ \E i, j \in 1 .. 3 :
          /\ awxResponse[i].Organization = awxResponse[j].Organization
          /\ awxResponse[i].Status = awxResponse[j].Status
          /\ awxResponse[i].Labels # awxResponse[j].Labels
    /\ Cardinality(MapEntries(jobCountByOrgStatusAndLabel)) = 3

(* -------------------------------- C13 --------------------------------- *)

\* the keys whose gauge the publish of the cycle in progress has Set
SetThisCycle ==
    IF pc \in { "publish", "set", "sleep" }
      THEN MapEntries(jobCountByOrgStatusAndLabel) \ pending
      ELSE {}

\* C13: a scrape that interleaves with the poll task at any point reads,
\* for a key, the value the gauge of the key holds, whole; that value is a
\* count that a completed Set wrote for the key, the latest one: the count
\* of the cycle in progress when its publish has Set the key, a count of
\* an earlier cycle if not, and never any other value.
C13_ScrapeReadsACompletedSet ==
    [][ (scraped' # scraped) =>
          /\ scraped'.key \in DOMAIN awxJobsTotal
          /\ scraped'.value = awxJobsTotal[scraped'.key]
          /\ scraped'.value \in 1 .. MaxJobs
          /\ scraped'.key \in SetThisCycle =>
                scraped'.value =
                    CountOf(jobCountByOrgStatusAndLabel, scraped'.key) ]_vars

(* -------------------------------- C14 --------------------------------- *)

\* C14: the steps of the one poll task are strictly sequential: a gauge
\* is looked up or set only when the fetch of the cycle succeeded and all
\* records of its response were ranged over, the count map no longer
\* changes once the publish has started, and the task is at its next
\* fetch only when every entry of the previous map was published.
C14_StepsAreSequential ==
    /\ [](pc \in { "publish", "set", "sleep" } =>
            (~err /\ idx = Len(awxResponse)
               /\ jobCountByOrgStatusAndLabel = Aggregate(awxResponse)))
    /\ [](pc \in { "fetch", "decode", "aggregate", "sleep" } =>
            (pending = {} /\ cur = NoCur))
    /\ [][ /\ awxJobsTotal' # awxJobsTotal =>
                (pc \in { "publish", "set" } /\ ~err /\ idx = Len(awxResponse))
           /\ pc \in { "publish", "set" } =>
                (jobCountByOrgStatusAndLabel' = jobCountByOrgStatusAndLabel
                   /\ awxResponse' = awxResponse)
           /\ (pc # "fetch" /\ pc' = "fetch") => pc \in { "sleep", "decode" }
           /\ (pc = "sleep" /\ pc' = "fetch") => pending = {} ]_vars

\* a later cycle is at its fetch after the cycle before it published a
\* map of two keys to its end
C14_Witness ==
    /\ pc = "decode"
    /\ ~err
    /\ Cardinality(MapEntries(jobCountByOrgStatusAndLabel)) = 2
    /\ \A k \in MapEntries(jobCountByOrgStatusAndLabel) :
          k \in DOMAIN awxJobsTotal
            /\ awxJobsTotal[k] = CountOf(jobCountByOrgStatusAndLabel, k)

(* -------------------------------- C15 --------------------------------- *)

\* C15: a fetch failure is not fatal and the poll task never stops. A
\* fetch that fails leaves the task at the fetch, an undecodable answer
\* leads back to the fetch, and the task is at the fetch again and again;
\* a decodable answer becomes the response of the cycle, which stays as it
\* is until the cycle ends, and leads to the end of a publish with the
\* gauges holding the counts of that response.
C15_PollTaskNeverStops ==
    /\ [][ (FetchReturns /\ err') => pc' = "fetch" ]_vars
    /\ (pc = "decode" /\ DecodeResponse(resp).err) ~> (pc = "fetch")
    /\ []<>(pc = "fetch")
    /\ [][ /\ (pc = "decode" /\ ~DecodeResponse(resp).err) =>
                awxResponse' = resp.body.results
           /\ (pc \in CountingOrPublishing) =>
                awxResponse' = awxResponse ]_vars
    /\ (pc = "decode" /\ ~DecodeResponse(resp).err)
          ~> (pc = "sleep" /\ HoldsCountsOf(Aggregate(awxResponse)))

\* after a cycle that published a decodable answer, a fetch failed, and
\* the task is at the fetch once more, the gauges as that cycle left them
C15_Witness ==
    /\ pc = "fetch"
    /\ err
    /\ awxJobsTotal # EmptyMap
    /\ HoldsCountsOf(Aggregate(awxResponse))

(* -------------------------------- C16 --------------------------------- *)

\* the label sequences of the records the upstream answers with
LabelSequences == { job.Labels : job \in JobRecords \cup FirstJobRecords }

\* C16: with the whitelist enabled every key of the gauge vector is
\* whitelisted: its organization is an allowed organization and its
\* combined labels are the join of a label sequence with at least one
\* allowed label; a step that creates or changes a gauge does it for the
\* key of a record of the current response that passes the filter.
C16_GaugeKeysAreWhitelisted ==
    /\ [](whitelistEnabled =>
            \A k \in DOMAIN awxJobsTotal :
                /\ k[1] \in Range(whitelistOrganizations)
                /\ \E labels \in LabelSequences :
                      /\ Range(labels) \cap Range(whitelistLabels) # {}
                      /\ k[3] = Join(labels, ","))
    /\ [][ whitelistEnabled =>
             \A k \in DOMAIN awxJobsTotal' :
                 (k \notin DOMAIN awxJobsTotal \/ awxJobsTotal'[k] # awxJobsTotal[k]) =>
                     \E i \in 1 .. Len(awxResponse) :
                         Allowed(awxResponse[i]) /\ KeyOf(awxResponse[i]) = k ]_vars

\* with the whitelist enabled, a response with a rejected and a counted
\* record was published: the gauges hold the key of the counted one only
C16_Witness ==
    /\ whitelistEnabled
    /\ pc = "sleep"
    /\ \E i, j \in 1 .. Len(awxResponse) :
          /\ ~Allowed(awxResponse[i])
          /\ Allowed(awxResponse[j])
          /\ KeyOf(awxResponse[i]) \notin DOMAIN awxJobsTotal
          /\ KeyOf(awxResponse[j]) \in DOMAIN awxJobsTotal

(* -------------------------------- C17 --------------------------------- *)

NothingPasses == \A i \in 1 .. Len(awxResponse) : ~PassesFilter(awxResponse[i])

\* C17: a successful cycle whose response has no record that passes the
\* filter changes no gauge: none of its steps from the aggregation to the
\* sleep changes the gauge vector, and its publish has nothing to visit.
C17_EmptyCycleChangesNothing ==
    /\ []((pc \in { "publish", "set", "sleep" } /\ NothingPasses) =>
            (pending = {} /\ pc # "set"))
    /\ [][ (pc \in { "aggregate", "publish", "set", "sleep" } /\ NothingPasses) =>
              awxJobsTotal' = awxJobsTotal ]_vars

\* a cycle whose records were all rejected has reached its sleep while
\* the gauges hold a count of an earlier cycle
C17_Witness ==
    /\ pc = "sleep"
    /\ ~err
    /\ Len(awxResponse) >= 1
    /\ NothingPasses
    /\ \E k \in DOMAIN awxJobsTotal : awxJobsTotal[k] >= 1

(* -------------------------------- C18 --------------------------------- *)

\* a cycle is publishing a map with at least one counted record
PublishingCounts ==
    /\ pc = "publish"
    /\ ~err
    /\ \E i \in 1 .. Len(awxResponse) : PassesFilter(awxResponse[i])

PublishOutcome ==
    PublishEntries(awxJobsTotal, jobCountByOrgStatusAndLabel, pending)

\* C19: the gauge vector at the end of a publish does not depend on the
\* order in which the entries are visited: whichever entry a step of the
\* publish visits, the vector the publish ends in stays the one it was
\* going to end in before the step.
C19_PublishOrderIsIrrelevant ==
    [][ (pc \in { "publish", "set" }) =>
          (PublishEntries(awxJobsTotal', jobCountByOrgStatusAndLabel', pending')
              = PublishOutcome) ]_vars

\* a publish of three entries has set one of them; two are left, in an
\* order still open, and one of them holds a count of an earlier cycle
\* that this publish will change
C19_Witness ==
    /\ pc = "publish"
    /\ Cardinality(MapEntries(jobCountByOrgStatusAndLabel)) = 3
    /\ Cardinality(pending) = 2
    /\ Cardinality({ k \in pending :
                       CanVisitNext(jobCountByOrgStatusAndLabel, pending, k) }) = 2
    /\ \E k \in pending :
          /\ k \in DOMAIN awxJobsTotal
          /\ awxJobsTotal[k] # CountOf(jobCountByOrgStatusAndLabel, k)

====
